---- MODULE Spec2Model ----
(***************************************************************************)
(* Model of app.py, the Real Intent Leads Splitter: one run of the script.  *)
(* The script reads the team member names, the uploaded CSV files,          *)
(* merges the files (process_uploaded_files), shuffles the merged leads,    *)
(* splits them with np.array_split and renders one download button per      *)
(* team member.                                                             *)
(*                                                                          *)
(* Text is modelled as a sequence of characters (a name), a CSV file as its *)
(* sequence of lines, a DataFrame as its columns and its rows.  All         *)
(* modelled files have the single column "lead".                            *)
(***************************************************************************)
EXTENDS Integers, Sequences, FiniteSets, TLC

\* ------------------------------------------------------------------ bounds
\* lines typed in the names text area
MaxLines == 3
\* files of an ordinary upload batch
MaxBatch == 2

\* ------------------------------------------------------- program constants
\* app.py:70  if len(names) < 2
MinNames == 2
\* app.py:90  if len(uploaded_files) > 10
MaxFilesAllowed == 10

\* ------------------------------------------------------------------ inputs
\* one line of the text area: blank, whitespace only, "a", " a b "
LineSet == { << >>, <<" ">>, <<"a">>, <<" ", "a", " ", "b", " ">> }

NamesInputs == UNION { [1..n -> LineSet] : n \in 1..MaxLines }

\* an uploaded file: its name, whether its bytes decode as UTF-8, its lines
BadFile == [name |-> "bad.csv",  valid_utf8 |-> FALSE, lines |-> <<"lead", "x">>]
ZeroFile == [name |-> "zero.csv", valid_utf8 |-> TRUE,  lines |-> << >>]
HdrFile == [name |-> "hdr.csv",  valid_utf8 |-> TRUE,  lines |-> <<"lead">>]
OneFile == [name |-> "one.csv",  valid_utf8 |-> TRUE,  lines |-> <<"lead", "x">>]
TwoFile == [name |-> "two.csv",  valid_utf8 |-> TRUE,  lines |-> <<"lead", "y", "x">>]

FileSet == {BadFile, ZeroFile, HdrFile, OneFile, TwoFile}

Repeat(f, n) == [k \in 1..n |-> f]

\* ordinary batches, and batches at and above the upload cap: files that
\* contribute nothing, followed by one file of FileSet
SmallBatches == UNION { [1..n -> FileSet] : n \in 0..MaxBatch }
CapBatches ==
    { Repeat(p, n - 2) \o <<q, f>> :
        p \in {BadFile, HdrFile}, q \in {BadFile, HdrFile}, f \in FileSet,
        n \in {MaxFilesAllowed, MaxFilesAllowed + 1} }
Batches == SmallBatches \cup CapBatches

\* date.today().strftime("%Y-%m-%d")
Dates == {"2025-01-31", "2025-02-01"}

\* ------------------------------------------------------------------- state
VARIABLES
    pc,                 \* position of the script
    names_input,        \* the text area, as its lines (names_input.split('\n'))
    names,              \* the processed names
    uploaded_files,     \* the uploaded files
    valid_upload_count,
    clicked,            \* st.button("Process Leads") returned True
    file_idx,           \* process_uploaded_files: files read so far
    all_dfs,            \* process_uploaded_files: all_dfs
    error_files,        \* process_uploaded_files: error_files
    combined_leads_df,
    shuffled_df,
    split_dfs,
    today_str,
    i,                  \* recipients handled so far (enumerate index)
    outputs,            \* what was rendered for each recipient, in order
    keys,               \* widget keys passed to st.download_button, in order
    messages            \* st.error / st.warning / st.success / st.info calls

vars == << pc, names_input, names, uploaded_files, valid_upload_count, clicked,
           file_idx, all_dfs, error_files, combined_leads_df, shuffled_df,
           split_dfs, today_str, i, outputs, keys, messages >>

\* ----------------------------------------------------------------- helpers
Msg(kind, file, reason, n, m) ==
    [kind |-> kind, file |-> file, reason |-> reason, n |-> n, m |-> m]

\* pd.DataFrame()
EmptyFrame == [columns |-> << >>, rows |-> << >>]

\* faulty variant of IsEmpty: a frame with columns and no rows counts as data
IsEmpty_columns_only(df) == df.columns = << >>

\* DataFrame.empty: any axis of length 0
IsEmpty(df) == df.rows = << >> \/ df.columns = << >>

RECURSIVE lstrip(_)
lstrip(s) == IF s # << >> /\ Head(s) = " " THEN lstrip(Tail(s)) ELSE s

RECURSIVE rstrip(_)
rstrip(s) ==
    IF s # << >> /\ s[Len(s)] = " " THEN rstrip(SubSeq(s, 1, Len(s) - 1)) ELSE s

\* str.strip()
strip(s) == rstrip(lstrip(s))

\* [name.strip() for name in names_input.split('\n') if name.strip()]
RECURSIVE ParseNames(_)
ParseNames(lines) ==
    IF lines = << >> THEN << >>
    ELSE (IF strip(Head(lines)) # << >> THEN <<strip(Head(lines))>> ELSE << >>)
         \o ParseNames(Tail(lines))


\* faulty variant of ValidateNames: a single name is kept
ValidateNames_noreset(ns) == ns

\* names = [] when fewer than 2 names were entered          (app.py:67-72)
ValidateNames(ns) == IF ns # << >> /\ Len(ns) < MinNames THEN << >> ELSE ns

\* bytes_data.decode('utf-8') and pd.read_csv: the first line is the header,
\* the other lines are the data rows; undecodable bytes and a file without
\* any line raise
read_csv(file) ==
    IF ~file.valid_utf8
    THEN [ok |-> FALSE, reason |-> "UnicodeDecodeError", df |-> EmptyFrame]
    ELSE IF file.lines = << >>
    THEN [ok |-> FALSE, reason |-> "EmptyDataError", df |-> EmptyFrame]
    ELSE [ok |-> TRUE, reason |-> "",
          df |-> [columns |-> <<Head(file.lines)>>, rows |-> Tail(file.lines)]]

\* pd.concat(all_dfs, ignore_index=True), all_dfs not empty
RECURSIVE concat_rows(_)
concat_rows(dfs) ==
    IF dfs = << >> THEN << >> ELSE Head(dfs).rows \o concat_rows(Tail(dfs))

concat(dfs) == [columns |-> Head(dfs).columns, rows |-> concat_rows(dfs)]

\* combined_leads_df.sample(frac=1).reset_index(drop=True): every permutation
\* of the rows is a possible outcome
sample(df) ==
    { [columns |-> df.columns,
       rows |-> [k \in 1..Len(df.rows) |-> df.rows[p[k]]]] :
        p \in Permutations(1..Len(df.rows)) }

\* faulty variants of section_size: the remainder is dropped; the larger
\* slices come last; the last slice takes the whole remainder
section_size_truncated(T, N, k) == T \div N
section_size_extras_last(T, N, k) ==
    IF k > N - (T % N) THEN (T \div N) + 1 ELSE T \div N
section_size_rest_in_last(T, N, k) ==
    IF k = N THEN (T \div N) + (T % N) ELSE T \div N

\* np.array_split: Neach_section, extras = divmod(Ntotal, Nsections);
\* section_sizes = extras * [Neach_section + 1] + (N - extras) * [Neach_section]
section_size(T, N, k) == IF k <= T % N THEN (T \div N) + 1 ELSE T \div N

\* div_points = cumsum([0] + section_sizes)
RECURSIVE div_point(_, _, _)
div_point(T, N, k) ==
    IF k = 0 THEN 0 ELSE div_point(T, N, k - 1) + section_size(T, N, k)

\* sub_arys[k] = ary[div_points[k] : div_points[k + 1]]
array_split(df, N) ==
    [k \in 1..N |->
        [columns |-> df.columns,
         rows |-> SubSeq(df.rows, div_point(Len(df.rows), N, k - 1) + 1,
                                  div_point(Len(df.rows), N, k))]]

\* faulty variant of sanitize: the name is used as it is
sanitize_none(name) == name

\* name.replace(' ', '_')
sanitize(name) == [k \in 1..Len(name) |-> IF name[k] = " " THEN "_" ELSE name[k]]

\* f"leads_{today_str}_{name.replace(' ', '_')}.csv"
file_name_of(day, name) == <<"leads_", day, "_">> \o sanitize(name) \o <<".csv">>

\* f"download_{name}"
key_of(name) == <<"download_">> \o name

\* df_to_convert.to_csv(index=False).encode('utf-8'): the header line, then
\* one line per row
convert_df(df) == [valid_utf8 |-> TRUE, lines |-> df.columns \o df.rows]

\* what the page shows for one recipient
NoBlob == [valid_utf8 |-> TRUE, lines |-> << >>]
Download(name, df, day) ==
    [kind |-> "download", name |-> name, n |-> Len(df.rows),
     data |-> convert_df(df), file_name |-> file_name_of(day, name),
     key |-> key_of(name)]
Notice(kind, name) ==
    [kind |-> kind, name |-> name, n |-> 0,
     data |-> NoBlob, file_name |-> << >>, key |-> << >>]

SeqRange(s) == { s[k] : k \in 1..Len(s) }


\* ------------------------------------------------------------------- Init
Init ==
    /\ pc = "names"
    /\ names_input = << << >> >>
    /\ names = << >>
    /\ uploaded_files = << >>
    /\ valid_upload_count = FALSE
    /\ clicked = FALSE
    /\ file_idx = 0
    /\ all_dfs = << >>
    /\ error_files = << >>
    /\ combined_leads_df = EmptyFrame
    /\ shuffled_df = EmptyFrame
    /\ split_dfs = << >>
    /\ today_str = ""
    /\ i = 0
    /\ outputs = << >>
    /\ keys = << >>
    /\ messages = << >>

\* ---------------------------------------------------------------- actions
\* Section 1: the names text area and its validation        (app.py:62-72)
EnterNames ==
    /\ pc = "names"
    /\ \E text \in NamesInputs :
         /\ names_input' = text
         /\ names' = ValidateNames(ParseNames(text))
         /\ messages' =
              IF ParseNames(text) # << >> /\ Len(ParseNames(text)) < MinNames
              THEN Append(messages, Msg("error_min_names", "", "", 0, 0))
              ELSE messages
    /\ pc' = "upload"
    /\ UNCHANGED << uploaded_files, valid_upload_count, clicked, file_idx,
                    all_dfs, error_files, combined_leads_df, shuffled_df,
                    split_dfs, today_str, i, outputs, keys >>

\* Section 2: the file uploader and the count check         (app.py:80-98)
UploadFiles ==
    /\ pc = "upload"
    /\ \E batch \in Batches :
         /\ uploaded_files' = batch
         /\ valid_upload_count' = (batch # << >> /\ Len(batch) <= MaxFilesAllowed)
         /\ messages' =
              IF batch = << >> THEN messages
              ELSE IF Len(batch) > MaxFilesAllowed
              THEN Append(messages, Msg("error_max_files", "", "", 0, 0))
              ELSE Append(messages, Msg("success_selected", "", "", Len(batch), 0))
    /\ pc' = "gate"
    /\ UNCHANGED << names_input, names, clicked, file_idx, all_dfs, error_files,
                    combined_leads_df, shuffled_df, split_dfs, today_str, i,
                    outputs, keys >>

\* if names and uploaded_files and valid_upload_count       (app.py:106)
GateOpen == names # << >> /\ uploaded_files # << >> /\ valid_upload_count

\* Section 3, the guard holds: process_uploaded_files is called
\*                                               (app.py:106-110, 11-17)
StartProcessing ==
    /\ pc = "gate"
    /\ GateOpen
    /\ messages' = Append(messages, Msg("info_processing", "", "", 0, 0))
    /\ file_idx' = 0
    /\ all_dfs' = << >>
    /\ error_files' = << >>
    /\ pc' = "read"
    /\ UNCHANGED << names_input, names, uploaded_files, valid_upload_count,
                    clicked, combined_leads_df, shuffled_df, split_dfs,
                    today_str, i, outputs, keys >>

\* Section 3, the guard fails: the "Process Leads" button   (app.py:173-180)
ProcessButton ==
    /\ pc = "gate"
    /\ ~GateOpen
    /\ \E c \in BOOLEAN :
         /\ clicked' = c
         /\ messages' =
              IF ~c THEN messages
              ELSE messages
                   \o (IF names = << >>
                       THEN <<Msg("error_need_names", "", "", 0, 0)>> ELSE << >>)
                   \o (IF uploaded_files = << >>
                       THEN <<Msg("error_need_files", "", "", 0, 0)>>
                       ELSE IF ~valid_upload_count
                       THEN <<Msg("error_need_fewer_files", "", "", 0, 0)>>
                       ELSE << >>)
    /\ pc' = "done"
    /\ UNCHANGED << names_input, names, uploaded_files, valid_upload_count,
                    file_idx, all_dfs, error_files, combined_leads_df,
                    shuffled_df, split_dfs, today_str, i, outputs, keys >>

\* faulty variant of ReadFile: a file that raises ends the loop
ReadFile_abort ==
    /\ pc = "read"
    /\ file_idx < Len(uploaded_files)
    /\ LET f == uploaded_files[file_idx + 1]
           r == read_csv(f)
       IN  /\ file_idx' = IF r.ok THEN file_idx + 1 ELSE Len(uploaded_files)
           /\ all_dfs' = IF r.ok /\ ~IsEmpty(r.df) THEN Append(all_dfs, r.df)
                         ELSE all_dfs
           /\ error_files' = IF r.ok THEN error_files
                             ELSE Append(error_files, f.name)
           /\ messages' =
                IF ~r.ok
                THEN Append(messages, Msg("error_reading", f.name, r.reason, 0, 0))
                ELSE IF IsEmpty(r.df)
                THEN Append(messages, Msg("warning_empty", f.name, "", 0, 0))
                ELSE messages
    /\ UNCHANGED << pc, names_input, names, uploaded_files, valid_upload_count,
                    clicked, combined_leads_df, shuffled_df, split_dfs,
                    today_str, i, outputs, keys >>

\* faulty variant of ReadFile: a file without rows is skipped without a warning
ReadFile_silent_empty ==
    /\ pc = "read"
    /\ file_idx < Len(uploaded_files)
    /\ LET f == uploaded_files[file_idx + 1]
           r == read_csv(f)
       IN  /\ file_idx' = file_idx + 1
           /\ all_dfs' = IF r.ok /\ ~IsEmpty(r.df) THEN Append(all_dfs, r.df)
                         ELSE all_dfs
           /\ error_files' = IF r.ok THEN error_files
                             ELSE Append(error_files, f.name)
           /\ messages' =
                IF ~r.ok
                THEN Append(messages, Msg("error_reading", f.name, r.reason, 0, 0))
                ELSE messages
    /\ UNCHANGED << pc, names_input, names, uploaded_files, valid_upload_count,
                    clicked, combined_leads_df, shuffled_df, split_dfs,
                    today_str, i, outputs, keys >>

\* process_uploaded_files, one iteration of the loop        (app.py:18-30)
\* the exception of a file is caught, and the loop goes on with the next file
ReadFile ==
    /\ pc = "read"
    /\ file_idx < Len(uploaded_files)
    /\ LET f == uploaded_files[file_idx + 1]
           r == read_csv(f)
       IN  /\ file_idx' = file_idx + 1
           /\ all_dfs' = IF r.ok /\ ~IsEmpty(r.df) THEN Append(all_dfs, r.df)
                         ELSE all_dfs
           /\ error_files' = IF r.ok THEN error_files
                             ELSE Append(error_files, f.name)
           /\ messages' =
                IF ~r.ok
                THEN Append(messages, Msg("error_reading", f.name, r.reason, 0, 0))
                ELSE IF IsEmpty(r.df)
                THEN Append(messages, Msg("warning_empty", f.name, "", 0, 0))
                ELSE messages
    /\ UNCHANGED << pc, names_input, names, uploaded_files, valid_upload_count,
                    clicked, combined_leads_df, shuffled_df, split_dfs,
                    today_str, i, outputs, keys >>

\* process_uploaded_files, after the loop: the result      (app.py:32-38, 110)
FinishMerge ==
    /\ pc = "read"
    /\ file_idx = Len(uploaded_files)
    /\ IF all_dfs = << >>
       THEN /\ messages' = Append(messages, Msg("error_no_valid_data", "", "", 0, 0))
            /\ combined_leads_df' = EmptyFrame
       ELSE /\ messages' = messages
            /\ combined_leads_df' = concat(all_dfs)
    /\ pc' = "check"
    /\ UNCHANGED << names_input, names, uploaded_files, valid_upload_count,
                    clicked, file_idx, all_dfs, error_files, shuffled_df,
                    split_dfs, today_str, i, outputs, keys >>

\* the merged leads are not empty: the summary messages     (app.py:112-120)
ReportCombined ==
    /\ pc = "check"
    /\ ~IsEmpty(combined_leads_df)
    /\ LET total_leads == Len(combined_leads_df.rows)
           num_people == Len(names)
       IN  messages' =
             Append(messages,
                    Msg("success_combined", "", "", total_leads, Len(uploaded_files)))
             \o (IF total_leads < num_people
                 THEN <<Msg("warning_fewer_leads", "", "", total_leads, num_people)>>
                 ELSE << >>)
    /\ pc' = "split"
    /\ UNCHANGED << names_input, names, uploaded_files, valid_upload_count,
                    clicked, file_idx, all_dfs, error_files, combined_leads_df,
                    shuffled_df, split_dfs, today_str, i, outputs, keys >>

\* the merged leads are empty                               (app.py:170-171)
NoLeads ==
    /\ pc = "check"
    /\ IsEmpty(combined_leads_df)
    /\ messages' = Append(messages, Msg("warning_no_data", "", "", 0, 0))
    /\ pc' = "done"
    /\ UNCHANGED << names_input, names, uploaded_files, valid_upload_count,
                    clicked, file_idx, all_dfs, error_files, combined_leads_df,
                    shuffled_df, split_dfs, today_str, i, outputs, keys >>

\* the splitting logic: shuffle, split, today's date        (app.py:122-135)
ShuffleSplit ==
    /\ pc = "split"
    /\ \E s \in sample(combined_leads_df), day \in Dates :
         /\ shuffled_df' = s
         /\ split_dfs' = array_split(s, Len(names))
         /\ today_str' = day
    /\ i' = 0
    /\ pc' = "loop"
    /\ UNCHANGED << names_input, names, uploaded_files, valid_upload_count,
                    clicked, file_idx, all_dfs, error_files, combined_leads_df,
                    outputs, keys, messages >>

\* one iteration of  for i, name in enumerate(names)        (app.py:137-167)
\* st.download_button raises when its key was already used by a widget of
\* this run, which ends the run.
Recipient ==
    /\ pc = "loop"
    /\ i < Len(names)
    /\ LET name == names[i + 1]
       IN  IF i < Len(split_dfs)
           THEN LET person_df == split_dfs[i + 1]
                IN  IF ~IsEmpty(person_df)
                    THEN /\ keys' = Append(keys, key_of(name))
                         /\ IF key_of(name) \in SeqRange(keys)
                            THEN /\ pc' = "crashed"
                                 /\ UNCHANGED << i, outputs >>
                            ELSE /\ outputs' =
                                      Append(outputs, Download(name, person_df, today_str))
                                 /\ i' = i + 1
                                 /\ pc' = IF i + 1 = Len(names) THEN "done" ELSE "loop"
                    ELSE /\ outputs' = Append(outputs, Notice("no_leads_assigned", name))
                         /\ i' = i + 1
                         /\ pc' = IF i + 1 = Len(names) THEN "done" ELSE "loop"
                         /\ UNCHANGED keys
           ELSE /\ outputs' = Append(outputs, Notice("no_split_data", name))
                /\ i' = i + 1
                /\ pc' = IF i + 1 = Len(names) THEN "done" ELSE "loop"
                /\ UNCHANGED keys
    /\ UNCHANGED << names_input, names, uploaded_files, valid_upload_count,
                    clicked, file_idx, all_dfs, error_files, combined_leads_df,
                    shuffled_df, split_dfs, today_str, messages >>

Next ==
    \/ EnterNames
    \/ UploadFiles
    \/ StartProcessing
    \/ ProcessButton
    \/ ReadFile
    \/ FinishMerge
    \/ ReportCombined
    \/ NoLeads
    \/ ShuffleSplit
    \/ Recipient

Spec == Init /\ [][Next]_vars


\* ------------------------------------------------------ claim vocabulary
MsgKinds == { messages[k].kind : k \in 1..Len(messages) }

\* process_uploaded_files was called in this run
Invoked == "info_processing" \in MsgKinds

\* process_uploaded_files has returned
Merged == Invoked /\ pc \in {"check", "split", "loop", "done", "crashed"}

\* the split step has run
SplitRan == pc \in {"loop", "done", "crashed"} /\ split_dfs # << >>

Count(s, x) == Cardinality({ k \in 1..Len(s) : s[k] = x })

\* s and t hold the same elements the same number of times
SameBag(s, t) ==
    /\ Len(s) = Len(t)
    /\ \A x \in SeqRange(s) \cup SeqRange(t) : Count(s, x) = Count(t, x)

\* the shares' rows, share after share
RECURSIVE SharesRows(_)
SharesRows(shares) ==
    IF shares = << >> THEN << >>
    ELSE Head(shares).rows \o SharesRows(Tail(shares))

ShareSize(k) == Len(split_dfs[k].rows)
TotalLeads == Len(shuffled_df.rows)
NumPeople == Len(names)

\* the data rows a file holds: none when it does not decode or has no
\* header line
DataRows(f) ==
    IF f.valid_utf8 /\ Len(f.lines) >= 2
    THEN [k \in 1..(Len(f.lines) - 1) |-> f.lines[k + 1]]
    ELSE << >>

FileRaises(f) == ~f.valid_utf8 \/ Len(f.lines) = 0
FileEmpty(f) == f.valid_utf8 /\ Len(f.lines) = 1

RECURSIVE ExpectedRows(_)
ExpectedRows(files) ==
    IF files = << >> THEN << >>
    ELSE DataRows(Head(files)) \o ExpectedRows(Tail(files))

\* lines of the text area that hold a character other than a blank
NonBlankLines ==
    { k \in 1..Len(names_input) :
        \E j \in 1..Len(names_input[k]) : names_input[k][j] # " " }

InputsValid ==
    /\ Cardinality(NonBlankLines) >= MinNames
    /\ Len(uploaded_files) >= 1
    /\ Len(uploaded_files) <= MaxFilesAllowed

ErrorKinds ==
    { "error_min_names", "error_max_files", "error_need_names",
      "error_need_files", "error_need_fewer_files" }

ErrorReported == MsgKinds \cap ErrorKinds # {}


\* ------------------------------------------------------------------ claims

\* C1: partition completeness.  Once the split has run there are N shares,
\* and the rows of the N shares together are, as a multiset, exactly the rows
\* of the shuffled record set, which are exactly the rows of the merged
\* record set: nothing is dropped, nothing is duplicated.
C1_PartitionComplete ==
    SplitRan =>
        /\ Len(split_dfs) = NumPeople
        /\ NumPeople >= MinNames
        /\ TotalLeads >= 1
        /\ SameBag(SharesRows(split_dfs), shuffled_df.rows)
        /\ SameBag(shuffled_df.rows, combined_leads_df.rows)

\* a split of 3 or more leads that do not divide evenly, in an order the
\* shuffle changed
C1_Witness ==
    /\ SplitRan
    /\ TotalLeads >= 3
    /\ TotalLeads % NumPeople # 0
    /\ shuffled_df.rows # combined_leads_df.rows

\* where slice k starts in the shuffled sequence under the slice-size policy
C2_SliceStart(k) ==
    (k - 1) * (TotalLeads \div NumPeople)
    + (IF k - 1 < TotalLeads % NumPeople THEN k - 1 ELSE TotalLeads % NumPeople)

\* C2: slice-size policy.  The split gives exactly N slices; slice k is the
\* contiguous run of the shuffled sequence that starts where slice k-1 ends;
\* the first T mod N slices hold (T div N) + 1 rows and the others T div N;
\* when T < N the first T slices hold 1 row and the others none; and what is
\* rendered at position k is for names[k] and holds the rows of slice k.
C2_SlicePolicy ==
    SplitRan =>
        /\ Len(split_dfs) = NumPeople
        /\ \A k \in 1..NumPeople :
             /\ ShareSize(k) = IF k <= TotalLeads % NumPeople
                               THEN (TotalLeads \div NumPeople) + 1
                               ELSE TotalLeads \div NumPeople
             /\ split_dfs[k].rows =
                  SubSeq(shuffled_df.rows, C2_SliceStart(k) + 1,
                         C2_SliceStart(k) + ShareSize(k))
             /\ TotalLeads < NumPeople =>
                  ShareSize(k) = IF k <= TotalLeads THEN 1 ELSE 0
        /\ \A k \in 1..Len(outputs) :
             /\ outputs[k].name = names[k]
             /\ outputs[k].n = ShareSize(k)
             /\ outputs[k].kind = "download" =>
                  outputs[k].data.lines = split_dfs[k].columns \o split_dfs[k].rows

\* a finished run with fewer leads than recipients
C2_Witness ==
    /\ SplitRan
    /\ pc = "done"
    /\ TotalLeads < NumPeople
    /\ Len(outputs) = NumPeople

\* ceil(T/N)
C3_Ceil == (TotalLeads + NumPeople - 1) \div NumPeople

C3_SizesWithinOne ==
    \A j, k \in 1..Len(split_dfs) : ShareSize(j) - ShareSize(k) <= 1

\* C3: fairness bound.  The share sizes differ by at most 1, and exactly
\* T mod N shares have size (T div N) + 1; that size is ceil(T/N) when N does
\* not divide T, and when N divides T all N shares have size T/N.
C3_FairnessBound ==
    SplitRan =>
        /\ C3_SizesWithinOne
        /\ Cardinality({ k \in 1..Len(split_dfs) :
                           ShareSize(k) = (TotalLeads \div NumPeople) + 1 })
             = TotalLeads % NumPeople
        /\ TotalLeads % NumPeople # 0 =>
             Cardinality({ k \in 1..Len(split_dfs) : ShareSize(k) = C3_Ceil })
               = TotalLeads % NumPeople
        /\ TotalLeads % NumPeople = 0 =>
             \A k \in 1..Len(split_dfs) : ShareSize(k) = C3_Ceil

\* a split whose leads do not divide evenly, with more leads than recipients
C3_Witness ==
    /\ SplitRan
    /\ TotalLeads > NumPeople
    /\ TotalLeads % NumPeople # 0

\* C3 as stated in the claim: the sizes differ by at most 1 and exactly T mod N shares
\* have size ceil(T/N)
C3_Original ==
    SplitRan =>
        /\ C3_SizesWithinOne
        /\ Cardinality({ k \in 1..Len(split_dfs) : ShareSize(k) = C3_Ceil })
             = TotalLeads % NumPeople


\* the name with every blank replaced by an underscore
Underscored(name) ==
    [k \in 1..Len(name) |-> IF name[k] = " " THEN "_" ELSE name[k]]

ExpectedFileName(name) ==
    <<"leads_", today_str, "_">> \o Underscored(name) \o <<".csv">>

C5_MergeOrder ==
    Merged =>
        /\ Len(uploaded_files) \in 1..MaxFilesAllowed
        /\ file_idx = Len(uploaded_files)
        /\ combined_leads_df.rows = ExpectedRows(uploaded_files)

\* a merge in which a file that raises comes before a file with rows, and
\* two files contribute rows
C5_Witness ==
    /\ Merged
    /\ \E j, k \in 1..Len(uploaded_files) :
         /\ j < k
         /\ FileRaises(uploaded_files[j])
         /\ DataRows(uploaded_files[k]) # << >>
    /\ Len(all_dfs) >= 1
    /\ combined_leads_df.rows # << >>


\* the messages that name a file, in the order they were shown
RECURSIVE FileMessages(_)
FileMessages(ms) ==
    IF ms = << >> THEN << >>
    ELSE (IF Head(ms).file # "" THEN <<Head(ms)>> ELSE << >>)
         \o FileMessages(Tail(ms))

\* the per-file messages the files call for: an error with its reason for a
\* file that raises, a warning for a file without rows, nothing for a file
\* with rows
RECURSIVE ExpectedFileMessages(_)
ExpectedFileMessages(files) ==
    IF files = << >> THEN << >>
    ELSE (IF FileRaises(Head(files))
          THEN <<Msg("error_reading", Head(files).name,
                     IF Head(files).valid_utf8 THEN "EmptyDataError"
                     ELSE "UnicodeDecodeError", 0, 0)>>
          ELSE IF FileEmpty(Head(files))
          THEN <<Msg("warning_empty", Head(files).name, "", 0, 0)>>
          ELSE << >>)
         \o ExpectedFileMessages(Tail(files))

\* the files whose name is nm and for which a message of kind kd with row
\* count n is due, and the messages of that kind shown for that name
FilesNamed(nm) == { k \in 1..Len(uploaded_files) : uploaded_files[k].name = nm }
StatusShown(nm, kd, n) ==
    { k \in 1..Len(messages) :
        messages[k].file = nm /\ messages[k].kind = kd /\ messages[k].n = n }

NoValidFile == \A k \in 1..Len(uploaded_files) : DataRows(uploaded_files[k]) = << >>

\* C7: empty-result boundary.  When no uploaded file parses with data,
\* process_uploaded_files returns an empty record set and shows the
\* "no valid lead data" error, the shuffle and the split never run, no share
\* and no download is produced, and the run ends without an exception.
C7_EmptyResult ==
    (Invoked /\ NoValidFile) =>
        /\ pc \in {"read", "check", "done"}
        /\ shuffled_df = EmptyFrame
        /\ split_dfs = << >>
        /\ outputs = << >>
        /\ keys = << >>
        /\ pc \in {"check", "done"} =>
             /\ combined_leads_df = EmptyFrame
             /\ "error_no_valid_data" \in MsgKinds
             /\ Len(error_files)
                  = Cardinality({ k \in 1..Len(uploaded_files) :
                                    FileRaises(uploaded_files[k]) })
        /\ pc = "done" => messages[Len(messages)].kind = "warning_no_data"

\* a finished run whose files all raised or were empty, some of each
C7_Witness ==
    /\ Invoked
    /\ NoValidFile
    /\ pc = "done"
    /\ \E k \in 1..Len(uploaded_files) : FileRaises(uploaded_files[k])
    /\ \E k \in 1..Len(uploaded_files) : FileEmpty(uploaded_files[k])

\* C8: precondition gate.  process_uploaded_files and the split run only
\* when at least 2 non-blank names were entered and 1..10 files uploaded, so
\* the split never has fewer than 2 recipients.  Otherwise nothing is
\* processed and no share is produced, and an error is shown exactly when one
\* single name was entered, more than 10 files were uploaded, or the
\* "Process Leads" button was pressed.
C8_PreconditionGate ==
    /\ Invoked => InputsValid
    /\ split_dfs # << >> => Len(split_dfs) >= MinNames
    /\ (pc = "done" /\ ~InputsValid) =>
         /\ ~Invoked
         /\ split_dfs = << >>
         /\ outputs = << >>
         /\ ErrorReported <=>
              \/ Cardinality(NonBlankLines) = 1
              \/ Len(uploaded_files) > MaxFilesAllowed
              \/ clicked
    /\ (pc \in {"read", "check", "split", "loop", "crashed"}
        \/ (pc = "done" /\ InputsValid)) => Invoked

\* a finished run with 2 names and more files than allowed
C8_Witness ==
    /\ pc = "done"
    /\ Cardinality(NonBlankLines) >= MinNames
    /\ Len(uploaded_files) > MaxFilesAllowed
    /\ ~Invoked
    /\ ErrorReported

\* C8 as stated in the claim: with invalid input nothing is processed and the
\* condition is reported as an error
C8_Original ==
    /\ Invoked => InputsValid
    /\ split_dfs # << >> => Len(split_dfs) >= MinNames
    /\ (pc = "done" /\ ~InputsValid) =>
         /\ ~Invoked
         /\ split_dfs = << >>
         /\ outputs = << >>
         /\ ErrorReported

\* C10: duplicate names are distinct recipients.  Every position gets its own
\* output, and the widget keys passed to st.download_button in one run are
\* pairwise distinct.
C10_DistinctKeys ==
    /\ pc # "crashed"
    /\ \A j, k \in 1..Len(keys) : j # k => keys[j] # keys[k]

====
